---- MODULE Spec2Model ----
(***************************************************************************)
(* PyMiniRacer build orchestration: setup.py (the package build driver,    *)
(* commands build_ext and build_v8) and py_mini_racer/extension/v8_build.py*)
(* (the engine build driver build_v8()).                                   *)
(*                                                                         *)
(* The state is the working tree on disk (checkouts, ledger of applied     *)
(* patches, sysroot headers, symlinks, static library), the environment of *)
(* the running process and the position of the single, sequential process  *)
(* in the drivers' code.  Every external command is a step that may exit   *)
(* with a non-zero status.  The working tree persists from one process to  *)
(* the next; everything else is per process.                               *)
(***************************************************************************)
EXTENDS Integers, Sequences, FiniteSets, TLC

\* ------------------------------------------------------------------ bounds
\* Number of processes (setup.py or v8_build.py invocations) run in a row
\* over the same working tree.
MaxRuns == 2
\* Number of *.patch files found by glob() in PATCHES_PATH.
NumPatches == 2

Patches == 1..NumPatches

\* ------------------------------------------------------- values and inputs
\* os.environ.get("PY_MINI_RACER_V8_PATH"): None, the empty string, a path.
\* The code reads the value in `if V8_PATH:` tests only, where the empty
\* string acts as None does; processes are started with None or with a path.
Unset == "None"
Empty == ""
PrebuiltPath == "/opt/v8/libmini_racer.so"
V8PathValues == {Unset, PrebuiltPath}

\* What `python --version` answers: 2.7 or something else.
PythonValues == {"2.7", "3.7"}

\* sys.platform
Platforms == {"linux", "darwin", "win32"}

\* Exit statuses of an external command.
ExitCodes == {0, 1}

\* The command lines a process is started with: v8_build.py as a script
\* ("main"), or setup.py with a list of distutils commands.
CommandLines ==
    { <<"main">>, <<"build_ext">>, <<"build_v8">>,
      <<"build_v8", "build_ext">>, <<"build_ext", "build_v8">> }

\* Header text is a sequence of tokens.  MARKER stands for the substring
\* "sysroot-creator.sh.", GLOB_SYMVER and MATH_SYMVER for the two literal
\* blocks of __asm__(".symver ...") lines, every other token for header text
\* that contains neither.
MARKER == "sysroot-creator.sh."
GLOB_SYMVER == "symver-glob"
MATH_SYMVER == "symver-math"

\* The headers a downloaded sysroot may carry: the marker with text after it,
\* the marker last, the marker first, no marker at all, the marker twice.
WithTail == <<"head", MARKER, "tail">>
MarkerLast == <<"head", MARKER>>
MarkerFirst == <<MARKER, "tail">>
NoMarker == <<"head", "tail">>
MarkerTwice == <<"head", MARKER, "tail", MARKER>>
SysrootHeaders == {WithTail, MarkerLast, MarkerFirst, NoMarker, MarkerTwice}

\* The (glob.h, math.h) pairs `gclient sync` installs in the build flow.
InstalledHeaders ==
    { <<WithTail, WithTail>>, <<MarkerTwice, MarkerLast>>,
      <<NoMarker, WithTail>>, <<WithTail, NoMarker>> }

\* prepare_workdir's list of directories to link.
directories ==
    <<"build", "build_overrides", "buildtools", "testing", "third_party", "tools">>

\* ------------------------------------------------------------------- state
VARIABLES
    \* environment of the running process
    V8_PATH,            \* setup.py: V8_PATH = os.environ.get(...)
    python,             \* what `python --version` reports on this host
    platform,           \* sys.platform
    no_build,           \* build_v8(no_build=...)
    \* the working tree
    vendor_depot_tools, \* isdir(vendor/depot_tools)           (setup.py)
    depot_tools,        \* isdir(extension/depot_tools)        (v8_build.py)
    gclient,            \* isfile(extension/.gclient)
    v8_dir,             \* isdir(extension/v8)
    has_ledger,         \* isfile(v8/.applied_patches)
    ledger,             \* lines of v8/.applied_patches
    patched,            \* patches whose changes are present in the v8 tree
    sysroot,            \* isdir(v8/build/linux/debian_sid_amd64-sysroot)
    glob_h,             \* usr/include/glob.h of the sysroot
    math_h,             \* usr/include/math.h of the sysroot
    links,              \* symlinks extension/<item> -> v8/<item>
    libA,               \* isfile(V8_LIB_DIRECTORY/out.gn/x64.release/obj/libv8_monolith.a)
    libB,               \* isfile(vendor/v8/out.gn/libv8/obj/libv8_monolith.a)
    v8_h,               \* isfile(V8_LIB_DIRECTORY/include/v8.h)
    \* control
    pc,                 \* position of the process
    caller,             \* who entered run()/build_v8(): "main", "cmd", "ext"
    cmds,               \* distutils commands still to run
    have_run,           \* distutils' Distribution.have_run
    applied_patches,    \* apply_patches: set read from the ledger
    todo,               \* apply_patches: patches of the glob not yet visited
    item,               \* prepare_workdir: index into directories
    cmd_prefix,         \* result of fixup_libtinfo
    \* history (observations, read by the properties only)
    runs,               \* processes started so far
    log,                \* steps of the current build_v8(), with exit status
    v8_calls,           \* build_v8() invocations in this process
    v8_done,            \* build_v8() invocations that returned, this process
    clones,             \* git clone of depot_tools issued by this process
    outcome,            \* how the last process ended
    failure,            \* the error last raised and where
    pstat,              \* apply_patches runs: patch invocations, ledger at start
    shist               \* patch_sysroot runs: writes, contents before

envVars  == <<V8_PATH, python, platform, no_build>>
depotVars == <<vendor_depot_tools, depot_tools>>
srcVars  == <<gclient, v8_dir>>
patchVars == <<has_ledger, ledger, patched>>
sysVars  == <<sysroot, glob_h, math_h>>
libVars  == <<libA, libB, v8_h>>
treeVars == <<depotVars, srcVars, patchVars, sysVars, links, libVars>>
loopVars == <<applied_patches, todo, item, cmd_prefix>>
histVars == <<runs, v8_calls, v8_done, clones, pstat, shist>>
vars == <<envVars, treeVars, pc, caller, cmds, have_run, loopVars,
          log, outcome, failure, histVars>>

\* ----------------------------------------------------------- pure helpers
Range(s) == { s[i] : i \in 1..Len(s) }

Count(tok, s) == Cardinality({ i \in 1..Len(s) : s[i] = tok })

Min(a, b) == IF a < b THEN a ELSE b

\* Python truth value of V8_PATH in `if V8_PATH:`: None and "" are false.
Truthy_inverted(v) == v \in {Unset, Empty}
Truthy(v) == v \notin {Unset, Empty}

\* libv8_object: the first location that holds the file, else the default.
libv8_object ==
    IF libA THEN "V8_LIB_DIRECTORY" ELSE IF libB THEN "vendor" ELSE "V8_LIB_DIRECTORY"

isfile(path) == IF path = "vendor" THEN libB ELSE libA

\* is_v8_built: the override, else the static library and v8.h on disk.
is_v8_built_always == TRUE
is_v8_built ==
    IF Truthy(V8_PATH) THEN TRUE ELSE isfile(libv8_object) /\ v8_h

\* is_depot_tools_checkout: isdir(vendor/depot_tools).
is_depot_tools_checkout == vendor_depot_tools

\* subprocess.check_call: a non-zero exit status raises CalledProcessError.
call_ignoring_status(exit) == FALSE
call_raises(exit) == exit # 0

\* header.split("sysroot-creator.sh.", 1): the parts around the first marker,
\* or the whole text as the only part when there is no marker.
split(header) ==
    IF \E i \in 1..Len(header) : header[i] = MARKER
    THEN LET i == CHOOSE k \in 1..Len(header) :
                    /\ header[k] = MARKER
                    /\ \A j \in 1..(k - 1) : header[j] # MARKER
         IN  << SubSeq(header, 1, i - 1), SubSeq(header, i + 1, Len(header)) >>
    ELSE << header >>

\* The three f.write calls of patch_sysroot: s, the marker, the block.
\* The second part of the split is not written back.
written_keeping_rest(parts, block) == parts[1] \o <<MARKER>> \o <<block>> \o parts[2]
written_without_marker(parts, block) == parts[1] \o <<block>>
written(parts, block) == parts[1] \o <<MARKER>> \o <<block>>

\* apply_patches: `if patch not in applied_patches`.
needs_patch_always(patch, applied) == TRUE
needs_patch(patch, applied) == patch \notin applied

\* The exceptions the drivers can meet; all derive from Exception.
Errors == {"CalledProcessError", "OSError", "ValueError", "Exception",
           "DistutilsFileError", "CompileError"}
IsException(e) == e \in Errors

\* build_extension's handler: `except Exception as e: raise Exception(err_msg % repr(e))`.
\* The message is the guidance text followed by repr of the original error.
handler_reraising(e) == [raised |-> TRUE, message |-> <<e>>]
build_extension_except(e) ==
    IF IsException(e)
    THEN [raised |-> TRUE, message |-> <<"guidance", e>>]
    ELSE [raised |-> TRUE, message |-> <<e>>]

\* Whether the process is inside MiniRacerBuildExt.build_extension's try block.
InBuildExtension ==
    caller = "ext" \/ pc \in {"build_extension", "copy_file", "compile"}

NoOutcome == [raised |-> FALSE, message |-> <<"running">>]
Success == [raised |-> FALSE, message |-> <<"ok">>]
NoFailure == [error |-> "none", in_ext |-> FALSE]

NoCalls == [p \in Patches |-> 0]
NoPatchRuns == [cur |-> NoCalls, prev |-> NoCalls, start |-> {}, prev_start |-> {}, done |-> 0]
NoSysrootRuns == [glob_writes |-> 0, math_writes |-> 0,
                  orig_glob |-> <<>>, orig_math |-> <<>>,
                  before_glob |-> <<>>, before_math |-> <<>>]

\* -------------------------------------------------------------------- Init
\* (libA, libB, v8_h) of the tree a first process finds: nothing built, the
\* library and header in V8_LIB_DIRECTORY, or the library in vendor/v8.
PrebuiltTrees ==
    { <<FALSE, FALSE, FALSE>>, <<TRUE, FALSE, TRUE>>, <<FALSE, TRUE, TRUE>> }

\* A clean working tree: nothing cloned, fetched, patched or linked.  The
\* static library and v8.h may already lie at the places setup.py looks in.
Init ==
    /\ V8_PATH = Unset /\ python = "2.7" /\ platform = "linux" /\ no_build = FALSE
    /\ vendor_depot_tools = FALSE /\ depot_tools = FALSE
    /\ gclient = FALSE /\ v8_dir = FALSE
    /\ has_ledger = FALSE /\ ledger = <<>> /\ patched = {}
    /\ sysroot = FALSE /\ glob_h = <<>> /\ math_h = <<>>
    /\ links = {}
    /\ \E t \in PrebuiltTrees : libA = t[1] /\ libB = t[2] /\ v8_h = t[3]
    /\ pc = "idle" /\ caller = "none" /\ cmds = <<>> /\ have_run = {}
    /\ applied_patches = {} /\ todo = {} /\ item = 1 /\ cmd_prefix = ""
    /\ runs = 0 /\ log = <<>> /\ v8_calls = 0 /\ v8_done = 0 /\ clones = 0
    /\ outcome = NoOutcome /\ failure = NoFailure
    /\ pstat = NoPatchRuns /\ shist = NoSysrootRuns

\* ------------------------------------------------------ raising, returning
\* An exception leaves the process: through build_extension's handler when it
\* is raised inside build_extension, as it is otherwise.  Either way the
\* process ends.
Raise(e) ==
    /\ outcome' = IF InBuildExtension
                  THEN build_extension_except(e)
                  ELSE [raised |-> TRUE, message |-> <<e>>]
    /\ failure' = [error |-> e, in_ext |-> InBuildExtension]
    /\ pc' = "idle" /\ caller' = "none" /\ cmds' = <<>>

\* What build_extension does after the availability check (lines 185-190).
AfterV8Check == IF Truthy(V8_PATH) THEN "copy_file" ELSE "compile"

\* Return from MiniRacerBuildV8.run to distutils' run_command, which records
\* the command in have_run, and from there to whoever ran the command.
ReturnFromRun ==
    /\ have_run' = have_run \cup {"build_v8"}
    /\ pc' = IF caller = "ext" THEN AfterV8Check ELSE "dispatch"
    /\ caller' = "none"
    /\ UNCHANGED <<cmds, outcome, failure>>

\* Return from build_v8(): to the script's end, or into run()'s last line.
ReturnFromBuildV8 ==
    /\ v8_done' = v8_done + 1
    /\ IF caller = "main"
       THEN /\ pc' = "idle" /\ caller' = "none" /\ outcome' = Success
            /\ UNCHANGED <<cmds, have_run, failure>>
       ELSE ReturnFromRun

\* One more step of build_v8() in the log, with the exit status of its command
\* (0 for a step that ran no command, -1 for a step that raised a Python error).
Logged(step, exit) == log' = Append(log, <<step, exit>>)

\* ------------------------------------------------------- starting, setup.py
\* A process starts: `python v8_build.py [--no-build]` or `python setup.py
\* <commands>`, with its environment.  The script reads neither V8_PATH nor
\* the python version; setup.py calls build_v8() with its defaults.
StartProcess(cl, v, py, pl, nb) ==
    /\ pc = "idle" /\ runs < MaxRuns
    /\ IF cl = <<"main">> THEN v = Unset /\ py = "2.7" ELSE nb = FALSE
    /\ runs' = runs + 1
    /\ V8_PATH' = v /\ python' = py /\ platform' = pl /\ no_build' = nb
    /\ cmds' = IF cl = <<"main">> THEN <<>> ELSE cl
    /\ pc' = IF cl = <<"main">> THEN "build_v8" ELSE "dispatch"
    /\ caller' = IF cl = <<"main">> THEN "main" ELSE "none"
    /\ have_run' = {} /\ log' = <<>> /\ v8_calls' = 0 /\ v8_done' = 0
    /\ clones' = 0 /\ outcome' = NoOutcome /\ failure' = NoFailure
    /\ applied_patches' = {} /\ todo' = {} /\ item' = 1 /\ cmd_prefix' = ""
    /\ UNCHANGED <<treeVars, pstat, shist>>

\* distutils: no command left, setup() returns.
Finish ==
    /\ pc = "dispatch" /\ cmds = <<>>
    /\ pc' = "idle" /\ outcome' = Success
    /\ UNCHANGED <<envVars, treeVars, caller, cmds, have_run, loopVars, log,
                   failure, histVars>>

\* distutils runs the next command of the command line; run_command skips a
\* command that has already run in this process.
DispatchBuildV8 ==
    /\ pc = "dispatch" /\ cmds # <<>> /\ Head(cmds) = "build_v8"
    /\ cmds' = Tail(cmds)
    /\ IF "build_v8" \in have_run
       THEN UNCHANGED <<pc, caller>>
       ELSE pc' = "run" /\ caller' = "cmd"
    /\ UNCHANGED <<envVars, treeVars, have_run, loopVars, log, outcome,
                   failure, histVars>>

DispatchBuildExt ==
    /\ pc = "dispatch" /\ cmds # <<>> /\ Head(cmds) = "build_ext"
    /\ cmds' = Tail(cmds)
    /\ pc' = "build_extension"
    /\ UNCHANGED <<envVars, treeVars, caller, have_run, loopVars, log, outcome,
                   failure, histVars>>

\* MiniRacerBuildExt.build_extension, lines 181-183: the availability check and
\* run_command('build_v8'), which distutils skips when the command has run.
build_extension ==
    /\ pc = "build_extension"
    /\ IF ~is_v8_built /\ "build_v8" \notin have_run
       THEN pc' = "run" /\ caller' = "ext"
       ELSE pc' = AfterV8Check /\ UNCHANGED caller
    /\ UNCHANGED <<envVars, treeVars, cmds, have_run, loopVars, log, outcome,
                   failure, histVars>>

\* build_extension, lines 186-188: copy_file of the pre-built library.
copy_file(ok) ==
    /\ pc = "copy_file"
    /\ IF ok
       THEN /\ pc' = "dispatch"
            /\ have_run' = have_run \cup {"build_ext"}
            /\ UNCHANGED <<caller, cmds, outcome, failure>>
       ELSE Raise("DistutilsFileError") /\ UNCHANGED have_run
    /\ UNCHANGED <<envVars, treeVars, loopVars, log, histVars>>

\* build_extension, line 190: build_ext.build_extension compiles and links.
compile(ok) ==
    /\ pc = "compile"
    /\ IF ok
       THEN /\ pc' = "dispatch"
            /\ have_run' = have_run \cup {"build_ext"}
            /\ UNCHANGED <<caller, cmds, outcome, failure>>
       ELSE Raise("CompileError") /\ UNCHANGED have_run
    /\ UNCHANGED <<envVars, treeVars, loopVars, log, histVars>>

\* MiniRacerBuildV8.run, lines 218-239, up to its first external command.
run ==
    /\ pc = "run"
    /\ IF Truthy(V8_PATH)
       THEN ReturnFromRun
       ELSE IF python # "2.7"
       THEN Raise("Exception") /\ UNCHANGED have_run
       ELSE IF ~is_v8_built
       THEN /\ pc' = IF ~is_depot_tools_checkout THEN "git_init" ELSE "build_v8"
            /\ UNCHANGED <<caller, cmds, have_run, outcome, failure>>
       ELSE ReturnFromRun
    /\ UNCHANGED <<envVars, treeVars, loopVars, log, histVars>>

\* run, line 233: check_call(['git', 'init']).
git_init(exit) ==
    /\ pc = "git_init"
    /\ IF exit # 0
       THEN Raise("CalledProcessError")
       ELSE pc' = "git_clone" /\ UNCHANGED <<caller, cmds, outcome, failure>>
    /\ UNCHANGED <<envVars, treeVars, have_run, loopVars, log, histVars>>

\* run, line 234: check_call(['git', 'clone', ..., 'vendor/depot_tools']).
git_clone(exit) ==
    /\ pc = "git_clone"
    /\ clones' = clones + 1
    /\ IF exit # 0
       THEN Raise("CalledProcessError") /\ UNCHANGED vendor_depot_tools
       ELSE /\ vendor_depot_tools' = TRUE
            /\ pc' = "build_v8"
            /\ UNCHANGED <<caller, cmds, outcome, failure>>
    /\ UNCHANGED <<envVars, depot_tools, srcVars, patchVars, sysVars, links,
                   libVars, have_run, loopVars, log, runs, v8_calls, v8_done,
                   pstat, shist>>

\* ------------------------------------------------- build_v8(), v8_build.py
\* build_v8 entry (lines 230-237) and install_depot_tools (lines 59-64):
\* clone depot_tools into extension/depot_tools unless the directory exists.
install_depot_tools(exit) ==
    /\ pc = "build_v8"
    /\ v8_calls' = v8_calls + 1
    /\ IF ~depot_tools
       THEN /\ clones' = clones + 1
            /\ log' = <<  <<"install_depot_tools", exit>>  >>
            /\ IF call_raises(exit)
               THEN Raise("CalledProcessError") /\ UNCHANGED depot_tools
               ELSE /\ depot_tools' = (exit = 0)
                    /\ pc' = "ensure_v8_src"
                    /\ UNCHANGED <<caller, cmds, outcome, failure>>
       ELSE /\ exit = 0
            /\ log' = <<  <<"install_depot_tools", 0>>  >>
            /\ pc' = "ensure_v8_src"
            /\ UNCHANGED <<clones, depot_tools, caller, cmds, outcome, failure>>
    /\ UNCHANGED <<envVars, vendor_depot_tools, srcVars, patchVars, sysVars,
                   links, libVars, have_run, loopVars, runs, v8_done, pstat,
                   shist>>

\* ensure_v8_src, first run (lines 81-82, 90-94): `fetch --nohooks v8`.  A
\* failing fetch may have written .gclient, and then may have created v8/.
fetch_v8(exit, wrote_gclient, made_v8) ==
    /\ pc = "ensure_v8_src" /\ ~gclient
    /\ Logged("fetch_v8", exit)
    /\ IF call_raises(exit)
       THEN /\ made_v8 => wrote_gclient
            /\ gclient' = wrote_gclient /\ v8_dir' = (v8_dir \/ made_v8)
            /\ Raise("CalledProcessError")
       ELSE /\ wrote_gclient /\ made_v8
            /\ gclient' = TRUE /\ v8_dir' = TRUE
            /\ pc' = "checkout_v8_version"
            /\ UNCHANGED <<caller, cmds, outcome, failure>>
    /\ UNCHANGED <<envVars, depotVars, patchVars, sysVars, links, libVars,
                   have_run, loopVars, histVars>>

\* ensure_v8_src, later runs (lines 83-84, 97-101): `gclient fetch`.
update_v8(exit) ==
    /\ pc = "ensure_v8_src" /\ gclient
    /\ Logged("update_v8", exit)
    /\ IF call_raises(exit)
       THEN Raise("CalledProcessError")
       ELSE pc' = "checkout_v8_version" /\ UNCHANGED <<caller, cmds, outcome, failure>>
    /\ UNCHANGED <<envVars, treeVars, have_run, loopVars, histVars>>

\* checkout_v8_version (lines 104-108): chdir into v8/, then
\* `git checkout <revision> -- .`, which restores every tracked file to the
\* revision (undoing the patches) and leaves untracked files, the ledger among
\* them, alone.
checkout_v8_version(exit) ==
    /\ pc = "checkout_v8_version"
    /\ IF ~v8_dir
       THEN /\ exit = 0
            /\ Logged("checkout_v8_version", -1)
            /\ Raise("OSError") /\ UNCHANGED patched
       ELSE /\ Logged("checkout_v8_version", exit)
            /\ IF call_raises(exit)
               THEN Raise("CalledProcessError") /\ UNCHANGED patched
               ELSE /\ patched' = IF exit = 0 THEN {} ELSE patched
                    /\ pc' = "dependencies_sync"
                    /\ UNCHANGED <<caller, cmds, outcome, failure>>
    /\ UNCHANGED <<envVars, depotVars, srcVars, has_ledger, ledger, sysVars,
                   links, libVars, have_run, loopVars, histVars>>

\* dependencies_sync (lines 111-115): `gclient sync`, hooks included.  On a
\* Linux host the hooks install the sysroot into v8/build/linux/ when it is
\* not there yet; an installed sysroot is left as it is.
dependencies_sync(exit, hs) ==
    /\ pc = "dependencies_sync"
    /\ Logged("dependencies_sync", exit)
    /\ IF call_raises(exit)
       THEN Raise("CalledProcessError") /\ UNCHANGED <<sysVars, shist>>
       ELSE /\ IF exit = 0 /\ platform = "linux" /\ ~sysroot
               THEN /\ sysroot' = TRUE /\ glob_h' = hs[1] /\ math_h' = hs[2]
                    /\ shist' = [shist EXCEPT !.orig_glob = hs[1], !.orig_math = hs[2]]
               ELSE UNCHANGED <<sysVars, shist>>
            /\ pc' = "patch_v8"
            /\ UNCHANGED <<caller, cmds, outcome, failure>>
    /\ UNCHANGED <<envVars, depotVars, srcVars, patchVars, links, libVars,
                   have_run, loopVars, runs, v8_calls, v8_done, clones, pstat>>

\* patch_v8 and the head of apply_patches (lines 133-138, 175-184): create
\* the ledger when it is missing, read it into a set, glob the patches.
patch_v8 ==
    /\ pc = "patch_v8"
    /\ has_ledger' = TRUE
    /\ applied_patches' = Range(ledger)
    /\ todo' = Patches
    /\ pstat' = [pstat EXCEPT !.prev = pstat.cur, !.prev_start = pstat.start,
                              !.cur = NoCalls, !.start = Range(ledger)]
    /\ pc' = "apply_patches"
    /\ UNCHANGED <<envVars, depotVars, srcVars, ledger, patched, sysVars, links,
                   libVars, caller, cmds, have_run, item, cmd_prefix, log,
                   outcome, failure, runs, v8_calls, v8_done, clones, shist>>

\* One iteration of apply_patches' loop (lines 184-187): skip a patch the
\* ledger lists, else run `patch -p1 -N` and append the path to the ledger.
\* glob() lists the directory in the file system's order, the same on every
\* run; the patches are numbered in that order.
apply_patch(patch, exit) ==
    /\ pc = "apply_patches" /\ patch \in todo /\ \A q \in todo : patch <= q
    /\ IF needs_patch(patch, applied_patches)
       THEN /\ Logged("patch", exit)
            /\ IF call_raises(exit)
               THEN /\ pstat' = [pstat EXCEPT !.cur[patch] = @ + 1, !.done = 0]
                    /\ Raise("CalledProcessError")
                    /\ UNCHANGED <<ledger, patched, todo>>
               ELSE /\ pstat' = [pstat EXCEPT !.cur[patch] = @ + 1]
                    /\ patched' = IF exit = 0 THEN patched \cup {patch} ELSE patched
                    /\ ledger' = Append(ledger, patch)
                    /\ todo' = todo \ {patch}
                    /\ UNCHANGED <<pc, caller, cmds, outcome, failure>>
       ELSE /\ exit = 0
            /\ todo' = todo \ {patch}
            /\ UNCHANGED <<ledger, patched, pstat, log, pc, caller, cmds,
                           outcome, failure>>
    /\ UNCHANGED <<envVars, depotVars, srcVars, has_ledger, sysVars, links,
                   libVars, have_run, applied_patches, item, cmd_prefix, runs,
                   v8_calls, v8_done, clones, shist>>

\* The loop is over: apply_patches returns, and build_v8 (lines 241-243) goes
\* on to patch_sysroot on Linux, to prepare_workdir elsewhere.
apply_patches_done ==
    /\ pc = "apply_patches" /\ todo = {}
    /\ pstat' = [pstat EXCEPT !.done = Min(@ + 1, 2)]
    /\ pc' = IF platform = "linux" THEN "patch_sysroot" ELSE "prepare_workdir"
    /\ item' = 1
    /\ UNCHANGED <<envVars, treeVars, caller, cmds, have_run, applied_patches,
                   todo, cmd_prefix, log, outcome, failure, runs, v8_calls,
                   v8_done, clones, shist>>

\* patch_sysroot, first half (lines 191-210): chdir into
\* extension/build/linux/debian_sid_amd64-sysroot, which exists when the
\* `build` link does and the sysroot is installed behind it; then read, split
\* and rewrite glob.h.  `s, e = ...` raises ValueError on a header without the
\* marker.
patch_sysroot_glob ==
    /\ pc = "patch_sysroot"
    /\ IF ~("build" \in links /\ sysroot)
       THEN /\ Logged("patch_sysroot", -1)
            /\ Raise("OSError") /\ UNCHANGED <<glob_h, shist>>
       ELSE IF Len(split(glob_h)) # 2
       THEN /\ Logged("patch_sysroot", -1)
            /\ Raise("ValueError") /\ UNCHANGED <<glob_h, shist>>
       ELSE /\ glob_h' = written(split(glob_h), GLOB_SYMVER)
            /\ shist' = [shist EXCEPT !.glob_writes = Min(@ + 1, 2),
                                      !.before_glob = glob_h]
            /\ pc' = "patch_sysroot_math"
            /\ UNCHANGED <<log, caller, cmds, outcome, failure>>
    /\ UNCHANGED <<envVars, depotVars, srcVars, patchVars, sysroot, math_h,
                   links, libVars, have_run, loopVars, runs, v8_calls, v8_done,
                   clones, pstat>>

\* patch_sysroot, second half (lines 211-227): the same for math.h.
patch_sysroot_math ==
    /\ pc = "patch_sysroot_math"
    /\ IF Len(split(math_h)) # 2
       THEN /\ Logged("patch_sysroot", -1)
            /\ Raise("ValueError") /\ UNCHANGED <<math_h, shist>>
       ELSE /\ math_h' = written(split(math_h), MATH_SYMVER)
            /\ shist' = [shist EXCEPT !.math_writes = Min(@ + 1, 2),
                                      !.before_math = math_h]
            /\ Logged("patch_sysroot", 0)
            /\ pc' = "prepare_workdir"
            /\ UNCHANGED <<caller, cmds, outcome, failure>>
    /\ UNCHANGED <<envVars, depotVars, srcVars, patchVars, sysroot, glob_h,
                   links, libVars, have_run, loopVars, runs, v8_calls, v8_done,
                   clones, pstat>>

\* One iteration of prepare_workdir's loop (lines 70-73) with symlink_force
\* (lines 141-153): link a directory that does not exist yet.  On win32 the
\* link is made by an external command, mklink; elsewhere by os.symlink.
prepare_workdir(exit) ==
    /\ pc = "prepare_workdir"
    /\ LET d == directories[item]
           next == IF item = Len(directories) THEN "fixup_libtinfo" ELSE "prepare_workdir"
       IN  IF d \in links
           THEN /\ exit = 0
                /\ pc' = next /\ item' = item + 1
                /\ UNCHANGED <<links, log, caller, cmds, outcome, failure>>
           ELSE IF platform = "win32"
           THEN /\ Logged("mklink", exit)
                /\ IF call_raises(exit)
                   THEN Raise("CalledProcessError") /\ UNCHANGED <<links, item>>
                   ELSE /\ links' = IF exit = 0 THEN links \cup {d} ELSE links
                        /\ pc' = next /\ item' = item + 1
                        /\ UNCHANGED <<caller, cmds, outcome, failure>>
           ELSE /\ exit = 0
                /\ links' = links \cup {d}
                /\ pc' = next /\ item' = item + 1
                /\ UNCHANGED <<log, caller, cmds, outcome, failure>>
    /\ UNCHANGED <<envVars, depotVars, srcVars, patchVars, sysVars, libVars,
                   have_run, applied_patches, todo, cmd_prefix, histVars>>

\* fixup_libtinfo (lines 156-171): nothing to do when the host has a usable
\* libtinfo.so.5 or no libtinfo.so.6; else link the latter under the former's
\* name inside v8/ and prefix the build command with LD_LIBRARY_PATH.  The
\* /lib and /usr/lib directories it searches do not exist on win32.
fixup_libtinfo(found_v5, found_v6) ==
    /\ pc = "fixup_libtinfo"
    /\ platform = "win32" => ~found_v5 /\ ~found_v6
    /\ cmd_prefix' = IF found_v5 \/ ~found_v6 THEN "" ELSE "LD_LIBRARY_PATH"
    /\ Logged("prepare_workdir", 0)
    /\ pc' = "gen_makefiles"
    /\ UNCHANGED <<envVars, treeVars, caller, cmds, have_run, applied_patches,
                   todo, item, outcome, failure, histVars>>

\* gen_makefiles (lines 123-125): `gn gen <build_path>`; with no_build,
\* build_v8 returns after it (line 247).
gen_makefiles(exit) ==
    /\ pc = "gen_makefiles"
    /\ Logged("gen_makefiles", exit)
    /\ IF call_raises(exit)
       THEN Raise("CalledProcessError") /\ UNCHANGED <<have_run, v8_done>>
       ELSE IF no_build
       THEN ReturnFromBuildV8
       ELSE /\ pc' = "make"
            /\ UNCHANGED <<caller, cmds, have_run, outcome, failure, v8_done>>
    /\ UNCHANGED <<envVars, treeVars, loopVars, runs, v8_calls, clones, pstat,
                   shist>>

\* make (lines 127-131): `<cmd_prefix> ninja -vv -C <build_path> <target>`.
\* setup.py builds target v8 into extension/out, which is none of the places
\* is_v8_built looks in; the script takes --build-path and --target, so its
\* build may or may not leave the library where setup.py expects it.
make(exit, at_expected_path) ==
    /\ pc = "make"
    /\ Logged("make", exit)
    /\ caller # "main" => ~at_expected_path
    /\ IF call_raises(exit)
       THEN /\ ~at_expected_path
            /\ Raise("CalledProcessError") /\ UNCHANGED <<have_run, v8_done, libA>>
       ELSE /\ libA' = (libA \/ (exit = 0 /\ at_expected_path))
            /\ ReturnFromBuildV8
    /\ UNCHANGED <<envVars, depotVars, srcVars, patchVars, sysVars, links, libB,
                   v8_h, loopVars, runs, v8_calls, clones, pstat, shist>>

\* -------------------------------------------------------------------- Next
Next ==
    \/ \E cl \in CommandLines, v \in V8PathValues, py \in PythonValues,
          pl \in Platforms, nb \in BOOLEAN : StartProcess(cl, v, py, pl, nb)
    \/ Finish
    \/ DispatchBuildV8
    \/ DispatchBuildExt
    \/ build_extension
    \/ \E ok \in BOOLEAN : copy_file(ok)
    \/ \E ok \in BOOLEAN : compile(ok)
    \/ run
    \/ \E exit \in ExitCodes : git_init(exit)
    \/ \E exit \in ExitCodes : git_clone(exit)
    \/ \E exit \in ExitCodes : install_depot_tools(exit)
    \/ \E exit \in ExitCodes, w \in BOOLEAN, m \in BOOLEAN : fetch_v8(exit, w, m)
    \/ \E exit \in ExitCodes : update_v8(exit)
    \/ \E exit \in ExitCodes : checkout_v8_version(exit)
    \/ \E exit \in ExitCodes, hs \in InstalledHeaders : dependencies_sync(exit, hs)
    \/ patch_v8
    \/ \E patch \in Patches, exit \in ExitCodes : apply_patch(patch, exit)
    \/ apply_patches_done
    \/ patch_sysroot_glob
    \/ patch_sysroot_math
    \/ \E exit \in ExitCodes : prepare_workdir(exit)
    \/ \E v5 \in BOOLEAN, v6 \in BOOLEAN : fixup_libtinfo(v5, v6)
    \/ \E exit \in ExitCodes : gen_makefiles(exit)
    \/ \E exit \in ExitCodes, there \in BOOLEAN : make(exit, there)

Spec == Init /\ [][Next]_vars

\* ------------------------------------------------ patch_sysroot on its own
\* The header-patching step run repeatedly over a tree in which its directory
\* exists: depot_tools cloned, v8 fetched and synced on Linux, every patch in
\* the ledger, the six links made by an earlier prepare_workdir; glob.h and
\* math.h as any sysroot may carry them.
InitSysroot ==
    /\ V8_PATH = Unset /\ python = "2.7" /\ platform = "linux" /\ no_build = FALSE
    /\ vendor_depot_tools = FALSE /\ depot_tools = TRUE
    /\ gclient = TRUE /\ v8_dir = TRUE
    /\ has_ledger = TRUE /\ ledger = [p \in Patches |-> p] /\ patched = {}
    /\ sysroot = TRUE /\ glob_h \in SysrootHeaders /\ math_h \in SysrootHeaders
    /\ links = Range(directories)
    /\ libA = FALSE /\ libB = FALSE /\ v8_h = FALSE
    /\ pc = "patch_sysroot" /\ caller = "main" /\ cmds = <<>> /\ have_run = {}
    /\ applied_patches = Patches /\ todo = {} /\ item = 1 /\ cmd_prefix = ""
    /\ runs = 1 /\ v8_calls = 1 /\ v8_done = 0 /\ clones = 0
    /\ log = << <<"install_depot_tools", 0>>, <<"update_v8", 0>>,
                <<"checkout_v8_version", 0>>, <<"dependencies_sync", 0>> >>
    /\ outcome = NoOutcome /\ failure = NoFailure
    /\ pstat = [NoPatchRuns EXCEPT !.start = Patches, !.done = 1]
    /\ shist = [NoSysrootRuns EXCEPT !.orig_glob = glob_h, !.orig_math = math_h]

\* build_v8 run again over the same tree comes back to patch_sysroot (line
\* 242) with the headers as the last run left them: no step before it writes
\* them, and dependencies_sync leaves an installed sysroot alone.
patch_sysroot_again ==
    /\ pc = "prepare_workdir" /\ runs <= MaxRuns
    /\ runs' = runs + 1
    /\ pc' = "patch_sysroot"
    /\ UNCHANGED <<envVars, treeVars, caller, cmds, have_run, loopVars, log,
                   outcome, failure, v8_calls, v8_done, clones, pstat, shist>>

NextSysroot ==
    \/ patch_sysroot_glob
    \/ patch_sysroot_math
    \/ patch_sysroot_again

SpecSysroot == InitSysroot /\ [][NextSysroot]_vars

\* ============================================================== properties

\* C1: in a process whose override is unset and whose expected static library
\* is missing on disk, build_v8() is invoked at most once, and whenever
\* build_ext.build_extension is about to compile, or has compiled, exactly
\* one invocation of build_v8() has been made and has returned.
C1_EngineBuildOnceBeforeCompile ==
    (V8_PATH = Unset /\ ~libA /\ ~libB) =>
        /\ v8_calls <= 1
        /\ (pc = "compile" \/ "build_ext" \in have_run) =>
              (v8_calls = 1 /\ v8_done = 1)

\* C1 witness: build_extension stands before the compilation, with no
\* override and no library on disk, after the engine build it started.
C1_Witness ==
    /\ V8_PATH = Unset /\ ~libA /\ ~libB
    /\ pc = "compile" /\ v8_calls = 1 /\ v8_done = 1
    /\ cmds = <<>> /\ "build_v8" \in have_run

\* C2: after two runs of apply_patches in succession that both completed,
\* the ledger lists every patch exactly once, the second run invoked the
\* patch command for no patch, and over the two runs the command was invoked
\* once for each patch the ledger did not list before the first run (so
\* exactly once per patch when the first run started on an empty ledger).
C2_PatchesAppliedOnce ==
    (pstat.done = 2 /\ pc # "apply_patches") =>
        \A p \in Patches :
            /\ Count(p, ledger) = 1
            /\ pstat.cur[p] = 0
            /\ pstat.prev[p] + pstat.cur[p] = (IF p \in pstat.prev_start THEN 0 ELSE 1)

\* C2 witness: two completed runs, the first on an empty ledger, so that it
\* invoked the patch command once for every patch.
C2_Witness ==
    /\ pstat.done = 2 /\ pc # "apply_patches"
    /\ pstat.prev_start = {}
    /\ \A p \in Patches : pstat.prev[p] = 1

\* C3: after patch_sysroot has completed twice, glob.h and math.h have the
\* content they had before the second run, and each holds the marker and its
\* symbol-versioning block exactly once.
C3_SysrootPatchIdempotent ==
    (shist.math_writes = 2 /\ pc # "patch_sysroot_math") =>
        /\ glob_h = shist.before_glob
        /\ math_h = shist.before_math
        /\ Count(MARKER, glob_h) = 1 /\ Count(GLOB_SYMVER, glob_h) = 1
        /\ Count(MARKER, math_h) = 1 /\ Count(MATH_SYMVER, math_h) = 1

\* C3 witness: the second run has completed on headers that had text after
\* the marker, and twice the marker, when they were installed.
C3_Witness ==
    /\ shist.math_writes = 2 /\ pc = "prepare_workdir"
    /\ shist.orig_glob = WithTail /\ shist.orig_math = MarkerTwice

\* C4: in a process started with the override set to a path, build_v8() is
\* never invoked and no depot_tools clone is issued, whatever lies on disk.
C4_OverrideSkipsEngineBuild ==
    (V8_PATH = PrebuiltPath) => (v8_calls = 0 /\ clones = 0)

\* C4 witness: with the override set and no library on disk, the build_v8
\* command has run and build_extension has passed its availability check.
C4_Witness ==
    /\ V8_PATH = PrebuiltPath /\ ~libA /\ ~libB /\ ~v8_h
    /\ "build_v8" \in have_run /\ pc = "copy_file"

\* C5: in the log of build_v8's steps a step that failed (a command with a
\* non-zero exit status, or a Python error) is the last one: nothing runs
\* after it and it is not run again; and then build_v8 has not returned and
\* the process has ended with the error raised.
C5_FailureHaltsSequence ==
    /\ \A i \in 1..(Len(log) - 1) : log[i][2] = 0
    /\ (Len(log) > 0 /\ log[Len(log)][2] # 0) =>
          (pc = "idle" /\ outcome.raised /\ v8_done = 0)

\* C5 witness: a command in the middle of the sequence exited non-zero after
\* the steps before it had succeeded.
C5_Witness ==
    /\ Len(log) >= 5
    /\ log[Len(log)] = <<"gen_makefiles", 1>>
    /\ pc = "idle"

\* C6: an error raised inside build_extension leaves it as a raised exception
\* whose message is the remediation guidance followed by the original error;
\* and no process in which an error was raised ends as a success.
C6_FailuresWrapped ==
    /\ failure.in_ext =>
          (outcome.raised /\ outcome.message = <<"guidance", failure.error>>)
    /\ failure.error # "none" => outcome.raised

\* C6 witness: an external command of the engine build failed while
\* build_extension was running the build_v8 command.
C6_Witness ==
    /\ failure.in_ext /\ failure.error = "CalledProcessError"
    /\ Len(log) > 0 /\ log[Len(log)][2] = 1

\* C7 (as claimed): at most one git clone of depot_tools is issued.  Counted
\* within one process already, the claim fails.
C7_ClonedAtMostOnce == clones <= 1

\* C8 (as claimed): when build_v8 reaches gen_makefiles, every patch the
\* ledger records is applied in the v8 tree.
C8_LedgerPatchesApplied ==
    pc = "gen_makefiles" => Range(ledger) \subseteq patched

\* C9 (as claimed): when patch_sysroot is about to enter
\* build/linux/debian_sid_amd64-sysroot, the directory exists: the `build`
\* link is there and the sysroot is installed behind it.
C9_SysrootDirectoryExists ==
    pc = "patch_sysroot" => ("build" \in links /\ sysroot)

\* Whether a is b with tokens left out: every token of a is in b, in order.
RECURSIVE IsSubsequence(_, _)
IsSubsequence(a, b) ==
    IF a = <<>> THEN TRUE
    ELSE IF b = <<>> THEN FALSE
    ELSE IF Head(a) = Head(b) THEN IsSubsequence(Tail(a), Tail(b))
    ELSE IsSubsequence(a, Tail(b))

\* C10 (as claimed): once a header has been patched, all its original text,
\* before and after the marker, is still in the file in the same order.
C10_OriginalTextKept ==
    /\ shist.glob_writes >= 1 => IsSubsequence(shist.orig_glob, glob_h)
    /\ shist.math_writes >= 1 => IsSubsequence(shist.orig_math, math_h)

\* C10 (amended): once a header has been patched, the file is the original
\* text before the first marker, in the same order, then the marker, then the
\* header's symbol-versioning block, and nothing else.
C10_TextBeforeMarkerKept ==
    /\ shist.glob_writes >= 1 =>
          glob_h = split(shist.orig_glob)[1] \o <<MARKER, GLOB_SYMVER>>
    /\ shist.math_writes >= 1 =>
          math_h = split(shist.orig_math)[1] \o <<MARKER, MATH_SYMVER>>

\* C10 witness: the step has run once on unpatched headers that had text
\* after the marker.
C10_Witness ==
    /\ shist.glob_writes = 1 /\ shist.math_writes = 1
    /\ shist.orig_glob = WithTail /\ shist.orig_math = WithTail
    /\ pc = "prepare_workdir"

====
